---------------------------- MODULE Spec2Model ----------------------------
(***************************************************************************)
(* Gas hydrate stability zone tool (GHSZ.py): the joides solver with its   *)
(* module-level memoization dictionary, and the script body that applies   *)
(* it to every cell of a depth raster.                                     *)
(*                                                                         *)
(* Reals are carried in fixed point, one unit = 10^-6: math.log and the    *)
(* two boundary curves are computed to that resolution with 32-bit safe    *)
(* integer arithmetic.  Temperatures are in whole degrees Celsius and      *)
(* gradients in whole degrees per kilometre, so that the Kelvin            *)
(* temperature at z is an exact number of millikelvin.                     *)
(***************************************************************************)
EXTENDS Integers, FiniteSets, Sequences, TLC

VARIABLES
    memoize_dict,     \* GHSZ.py:61, the module-level dictionary depth -> z
    env,              \* <<base_water_temp, geothermal_gradient>> of the next call
    args,             \* <<water_depth, <<T, G>>>> of the last joides call
    ret,              \* what the last joides call returned
    path,             \* "none", "hit" (line 43) or "search" (lines 45-58)
    ncalls,           \* number of joides calls made so far
    pc,               \* position of the script body (lines 63-111)
    in_raster,        \* the input raster: cell -> [nodata, v], v in tenths of a metre
    in_array,         \* lines 87-88: cell -> integer depth
    out_array,        \* line 90: cell -> result, filled cell by cell
    no_data_value,    \* line 93
    tpc,              \* concurrent invocations: thread -> position inside joides
    tdepth,           \* thread -> water_depth of its invocation
    tz,               \* thread -> the z its search found (local variable)
    tret              \* thread -> returned value

vars == <<memoize_dict, env, args, ret, path, ncalls, pc, in_raster, in_array,
          out_array, no_data_value, tpc, tdepth, tz, tret>>

callVars == <<args, ret, path, ncalls>>
evalVars == <<pc, in_raster, in_array, out_array, no_data_value>>
concVars == <<tpc, tdepth, tz, tret>>

-----------------------------------------------------------------------------
(* Program constants *)

\* Python's None: joides falls off the end of the function (after line 58).
None == -1

\* range(1, 2501) of the outer loop, line 45.
ZMax == 2500

\* range(1, 2501) of the inner loop, line 48.
Z2Max == 2500

\* 9.355001, line 47, in units of 10^-6.
Threshold == 9355001

\* nodata_to_value=99999, line 87.
NoDataToValue == 99999

-----------------------------------------------------------------------------
(* Bounds of the model *)

\* joides calls in one behaviour of the call specifications.
MaxCalls == 3

\* raster shape: 1..MaxRows rows, 1..MaxCols columns.
MaxRows == 1
MaxCols == 2

\* concurrent joides invocations sharing memoize_dict.
NThreads == 2

\* water depths (metres) joides is applied to.
Depths == {0, 384, 385, 800, 1000, 9999, 99999}

\* depths the call specifications draw from.
CallDepths == {0, 384, 800, 1000, 99999}

\* <<base_water_temp, geothermal_gradient>> pairs: a typical sea floor, warm
\* bottom water, and no geothermal gradient (no depth is ever stable enough).
Params == {<<4, 30>>, <<20, 30>>, <<4, 0>>}

-----------------------------------------------------------------------------
(* Fixed-point arithmetic *)

\* floor(10^6 * n / d) for 0 <= n, 0 < d < 2 * 10^6, by long division
\* three decimal digits at a time.
DivMicro(n, d) ==
    LET r0 == (n % d) * 1000
        r1 == (r0 % d) * 1000
    IN  (n \div d) * 1000000 + (r0 \div d) * 1000 + (r1 \div d)

\* u * v / 10^6, rounded, for 0 <= u, v < 4 * 10^7.
FMul(u, v) ==
    LET u1 == u \div 1000
        u0 == u % 1000
        v1 == v \div 1000
        v0 == v % 1000
    IN  u1 * v1 + (u1 * v0 + u0 * v1 + (u0 * v0) \div 1000 + 500) \div 1000

\* floor(log2(n)) for 1 <= n < 2^18.
Log2(n) == CHOOSE k \in 0..17 : 2^k <= n /\ n < 2^(k + 1)

\* 10^6 * ln(n) for an integer 1 <= n < 2^18: n = 2^k * m with 1 <= m < 2,
\* ln(m) = 2 * atanh(y) with y = (m - 1) / (m + 1) < 1/3, by its series
\* up to y^11 (the terms over the common denominator 1155).
Ln(n) ==
    LET k   == Log2(n)
        y   == DivMicro(n - 2^k, n + 2^k)
        y2  == FMul(y, y)
        y3  == FMul(y, y2)
        y5  == FMul(y3, y2)
        y7  == FMul(y5, y2)
        y9  == FMul(y7, y2)
        y11 == FMul(y9, y2)
        s   == y + (y3 * 385 + y5 * 231 + y7 * 165 + y9 * 128 + y11 * 105 + 577)
                      \div 1155
    IN  k * 693147 + (k * 181) \div 1000 + 2 * s

\* the least element of a non-empty set of integers.
Min(S) == CHOOSE m \in S : \A n \in S : m <= n

-----------------------------------------------------------------------------
(* joides, lines 27-58 *)

\* a = math.log(10.17 * (water_depth + z)), lines 46 and 49, as a function of
\* n = water_depth + z: ln(10.17) = 2.319442 plus ln(n).
A(n) == 2319442 + Ln(n)

\* (base_water_temp + z * geothermal_gradient / 1000) + 273.15, in millikelvin.
Kelvin(base_water_temp, geothermal_gradient, z) ==
    1000 * base_water_temp + z * geothermal_gradient + 273150

\* b = 38.53 - 8386.8 / (...), line 55.
B(base_water_temp, geothermal_gradient, z) ==
    38530000 - DivMicro(8386800, Kelvin(base_water_temp, geothermal_gradient, z))

\* b2 = 46.74 - 10748.1 / (...), line 50.
B2(base_water_temp, geothermal_gradient, z2) ==
    46740000 - DivMicro(10748100, Kelvin(base_water_temp, geothermal_gradient, z2))

\* The inner loop, lines 48-53: the first z2 of range(1, 2501) with a2 < b2,
\* or None when the loop runs to its end.  It reads nothing of the outer z.
InnerScan(water_depth, base_water_temp, geothermal_gradient) ==
    LET hits == {z2 \in 1..Z2Max :
                    A(water_depth + z2) < B2(base_water_temp, geothermal_gradient, z2)}
    IN  IF hits = {} THEN None ELSE Min(hits)

\* Search with line 53 returning z, the counter of the outer loop, where the
\* source returns z2.
SearchReturnsOuterZ(water_depth, base_water_temp, geothermal_gradient) ==
    LET hits == {z2 \in 1..Z2Max :
                    A(water_depth + z2) < B2(base_water_temp, geothermal_gradient, z2)}
        rets == {z \in 1..ZMax :
                    IF A(water_depth + z) > Threshold
                    THEN hits # {}
                    ELSE A(water_depth + z) < B(base_water_temp, geothermal_gradient, z)}
    IN  IF rets = {} THEN None ELSE Min(rets)

\* The else branch of joides, lines 45-58: the value returned at the first z
\* of range(1, 2501) at which a return statement is reached, None otherwise.
\* On a > 9.355001 the inner loop decides, and the outer loop goes on to the
\* next z when it found nothing; otherwise a < b on the first curve decides.
Search(water_depth, base_water_temp, geothermal_gradient) ==
    LET inner == InnerScan(water_depth, base_water_temp, geothermal_gradient)
        rets  == {z \in 1..ZMax :
                     IF A(water_depth + z) > Threshold
                     THEN inner # None
                     ELSE A(water_depth + z) < B(base_water_temp, geothermal_gradient, z)}
        z1    == Min(rets)
    IN  IF rets = {} THEN None
        ELSE IF A(water_depth + z1) > Threshold THEN inner ELSE z1

\* Search over the depths and parameters of the model, evaluated once.
SearchTable ==
    [d \in Depths, p \in Params |-> Search(d, p[1], p[2])] @@ <<>>

\* MemoKey with the depth bucketed to whole kilometres.
MemoKeyPerKilometre(water_depth) == (water_depth \div 1000) * 1000

\* The key joides uses for memoize_dict, lines 42, 43, 52 and 57.
MemoKey(water_depth) == water_depth

\* MemoStore that also records a search that found nothing.
MemoStoreAlways(memo, water_depth, r) == (water_depth :> r) @@ memo

\* memoize_dict after joides found r (lines 52 and 57) or fell off the end.
MemoStore(memo, water_depth, r) ==
    IF r = None THEN memo ELSE (MemoKey(water_depth) :> r) @@ memo

\* One call of joides: what it returns and what it leaves in memoize_dict.
joides(memo, water_depth, p) ==
    IF MemoKey(water_depth) \in DOMAIN memo
    THEN [ret |-> memo[MemoKey(water_depth)], memo |-> memo, path |-> "hit"]
    ELSE LET r == SearchTable[water_depth, p]
         IN  [ret |-> r, memo |-> MemoStore(memo, water_depth, r), path |-> "search"]

\* memoize_dict = {}, line 61.
EmptyMemo == <<>>

-----------------------------------------------------------------------------
(* Sequences of joides calls on the one memoize_dict *)

IdleEval ==
    /\ pc = "unused"
    /\ in_raster = <<>>
    /\ in_array = <<>>
    /\ out_array = <<>>
    /\ no_data_value = None

IdleConc ==
    /\ tpc = <<>>
    /\ tdepth = <<>>
    /\ tz = <<>>
    /\ tret = <<>>

IdleCalls ==
    /\ args = <<0, <<0, 0>>>>
    /\ ret = None
    /\ path = "none"
    /\ ncalls = 0

Init ==
    /\ memoize_dict = EmptyMemo
    /\ env \in Params
    /\ IdleCalls
    /\ IdleEval
    /\ IdleConc

\* joides(water_depth, env[1], env[2]) is called.
Call(water_depth) ==
    /\ ncalls < MaxCalls
    /\ \E j \in {joides(memoize_dict, water_depth, env)} :
          /\ memoize_dict' = j.memo
          /\ ret' = j.ret
          /\ path' = j.path
    /\ args' = <<water_depth, env>>
    /\ ncalls' = ncalls + 1
    /\ UNCHANGED <<env, evalVars, concVars>>

\* The caller passes other environmental parameters from now on.
SetParams(p) ==
    /\ p # env
    /\ env' = p
    /\ UNCHANGED <<memoize_dict, callVars, evalVars, concVars>>

Next ==
    \/ \E d \in CallDepths : Call(d)
    \/ \E p \in Params : SetParams(p)

Spec == Init /\ [][Next]_vars

\* Calls with base_water_temp and geothermal_gradient held fixed.
NextFixed == \E d \in CallDepths : Call(d)

SpecFixed == Init /\ [][NextFixed]_vars

-----------------------------------------------------------------------------
(* The script body, lines 63-111: one run of the tool on one raster *)

\* ReverseDepth with a digit dropped from the literal of line 93.
ReverseDepthTypo == 99999 \div 10

\* the depth joides is called with on line 93.
ReverseDepth == 99999

\* raster cell values, in tenths of a metre: -0.5, 384.9 and 1000.0.
RasterValues == {-5, 3849, 10000}

NoDataCell == [nodata |-> TRUE, v |-> 0]

CellValues == {NoDataCell} \cup {[nodata |-> FALSE, v |-> w] : w \in RasterValues}

\* the cells of a raster with r rows and c columns.
Cells(r, c) == (1..r) \X (1..c)

\* the rasters of the model: every shape up to MaxRows x MaxCols, at least
\* one cell holding data (the statistics of line 78 are taken over those).
Rasters ==
    {g \in UNION {[Cells(r, c) -> CellValues] : r \in 1..MaxRows, c \in 1..MaxCols} :
        \E c \in DOMAIN g : ~g[c].nodata}

DataValues(raster) == {raster[c].v : c \in {e \in DOMAIN raster : ~raster[e].nodata}}

\* in_raster.minimum and in_raster.maximum, line 78.
Minimum(raster) == CHOOSE m \in DataValues(raster) : \A w \in DataValues(raster) : m <= w
Maximum(raster) == CHOOSE m \in DataValues(raster) : \A w \in DataValues(raster) : m >= w

\* StatsNegative testing the maximum alone.
StatsNegativeMaxOnly(raster) == Maximum(raster) < 0

\* the condition of line 78.
StatsNegative(raster) == Minimum(raster) < 0 \/ Maximum(raster) < 0

\* AsInt rounding to the nearest metre.
AsIntRounded(w) == (w + 5) \div 10

\* astype(int), line 88: a value in tenths to whole metres, toward zero.
AsInt(w) == IF w >= 0 THEN w \div 10 ELSE -((-w) \div 10)

\* RasterToNumPyArray(in_raster, nodata_to_value=99999).astype(int), lines 87-88.
RasterToNumPyArray(raster) ==
    [c \in DOMAIN raster |->
        IF raster[c].nodata THEN NoDataToValue ELSE AsInt(raster[c].v)]

InitEval ==
    /\ memoize_dict = EmptyMemo
    /\ env \in Params
    /\ IdleCalls
    /\ pc = "start"
    /\ in_raster \in Rasters
    /\ in_array = <<>>
    /\ out_array = <<>>
    /\ no_data_value = None
    /\ IdleConc

\* lines 78-79 and 101-102: the statistics are negative, the run ends with
\* "Error: Raster must be positive."
RaiseIncorrectRasterStats ==
    /\ pc = "start"
    /\ StatsNegative(in_raster)
    /\ pc' = "error"
    /\ UNCHANGED <<memoize_dict, env, callVars, in_raster, in_array, out_array,
                   no_data_value, concVars>>

\* lines 78-88: the statistics pass and the raster becomes an integer array.
ToArray ==
    /\ pc = "start"
    /\ ~StatsNegative(in_raster)
    /\ in_array' = RasterToNumPyArray(in_raster)
    /\ pc' = "map"
    /\ UNCHANGED <<memoize_dict, env, callVars, in_raster, out_array,
                   no_data_value, concVars>>

\* line 90: vectorised_joides applies joides to one more cell; the source
\* does not fix the order of the cells, so any cell not yet done may be next.
EvalCell(c) ==
    /\ pc = "map"
    /\ c \in DOMAIN in_array
    /\ c \notin DOMAIN out_array
    /\ \E j \in {joides(memoize_dict, in_array[c], env)} :
          /\ out_array' = (c :> j.ret) @@ out_array
          /\ memoize_dict' = j.memo
          /\ ret' = j.ret
          /\ path' = j.path
    /\ args' = <<in_array[c], env>>
    /\ ncalls' = ncalls + 1
    /\ UNCHANGED <<env, pc, in_raster, in_array, no_data_value, concVars>>

\* lines 93-99: every cell is done; the no-data value is reverse calculated
\* and the output raster is written.
ReverseNoData ==
    /\ pc = "map"
    /\ DOMAIN out_array = DOMAIN in_array
    /\ \E j \in {joides(memoize_dict, ReverseDepth, env)} :
          /\ no_data_value' = j.ret
          /\ memoize_dict' = j.memo
          /\ ret' = j.ret
          /\ path' = j.path
    /\ args' = <<ReverseDepth, env>>
    /\ ncalls' = ncalls + 1
    /\ pc' = "done"
    /\ UNCHANGED <<env, in_raster, in_array, out_array, concVars>>

NextEval ==
    \/ RaiseIncorrectRasterStats
    \/ ToArray
    \/ \E c \in Cells(MaxRows, MaxCols) : EvalCell(c)
    \/ ReverseNoData

SpecEval == InitEval /\ [][NextEval]_vars

-----------------------------------------------------------------------------
(* Concurrent invocations of joides on the one memoize_dict, one statement *)
(* of the function at a time                                               *)

Threads == 1..NThreads

\* depths the concurrent invocations draw from.
ConcDepths == {384, 800}

InitConc ==
    /\ memoize_dict = EmptyMemo
    /\ env \in Params
    /\ IdleCalls
    /\ IdleEval
    /\ tpc = [t \in Threads |-> "idle"]
    /\ tdepth = [t \in Threads |-> 0]
    /\ tz = [t \in Threads |-> None]
    /\ tret = [t \in Threads |-> None]

\* a thread enters joides(d, env[1], env[2]).
Enter(t, d) ==
    /\ tpc[t] \in {"idle", "done"}
    /\ tpc' = [tpc EXCEPT ![t] = "check"]
    /\ tdepth' = [tdepth EXCEPT ![t] = d]
    /\ tz' = [tz EXCEPT ![t] = None]
    /\ UNCHANGED <<memoize_dict, env, callVars, evalVars, tret>>

\* line 42: if water_depth in memoize_dict.
CheckMemo(t) ==
    /\ tpc[t] = "check"
    /\ tpc' = [tpc EXCEPT ![t] =
                  IF MemoKey(tdepth[t]) \in DOMAIN memoize_dict THEN "hit" ELSE "miss"]
    /\ UNCHANGED <<memoize_dict, env, callVars, evalVars, tdepth, tz, tret>>

\* line 43: return memoize_dict[water_depth].
ReturnMemo(t) ==
    /\ tpc[t] = "hit"
    /\ tret' = [tret EXCEPT ![t] = memoize_dict[MemoKey(tdepth[t])]]
    /\ tpc' = [tpc EXCEPT ![t] = "done"]
    /\ UNCHANGED <<memoize_dict, env, callVars, evalVars, tdepth, tz>>

\* lines 45-51 and 55-56: the loops, on the thread's own locals; a search
\* that finds nothing falls off the end and returns None.
RunSearch(t) ==
    /\ tpc[t] = "miss"
    /\ \E r \in {SearchTable[tdepth[t], env]} :
          /\ tz' = [tz EXCEPT ![t] = r]
          /\ tpc' = [tpc EXCEPT ![t] = IF r = None THEN "done" ELSE "store"]
          /\ tret' = [tret EXCEPT ![t] = IF r = None THEN None ELSE @]
    /\ UNCHANGED <<memoize_dict, env, callVars, evalVars, tdepth>>

\* lines 52 and 57: memoize_dict[water_depth] = z.
StoreMemo(t) ==
    /\ tpc[t] = "store"
    /\ memoize_dict' = MemoStore(memoize_dict, tdepth[t], tz[t])
    /\ tpc' = [tpc EXCEPT ![t] = "return"]
    /\ UNCHANGED <<env, callVars, evalVars, tdepth, tz, tret>>

\* lines 53 and 58: return z.
ReturnZ(t) ==
    /\ tpc[t] = "return"
    /\ tret' = [tret EXCEPT ![t] = tz[t]]
    /\ tpc' = [tpc EXCEPT ![t] = "done"]
    /\ UNCHANGED <<memoize_dict, env, callVars, evalVars, tdepth, tz>>

NextConc ==
    \E t \in Threads :
        \/ \E d \in ConcDepths : Enter(t, d)
        \/ CheckMemo(t)
        \/ ReturnMemo(t)
        \/ RunSearch(t)
        \/ StoreMemo(t)
        \/ ReturnZ(t)

SpecConc == InitConc /\ [][NextConc]_vars

-----------------------------------------------------------------------------
(* What the two loops are meant to compute, stated with quantifiers *)

\* a2 < b2 holds at z2 on the second curve.
Curve2Hit(water_depth, p, z2) == A(water_depth + z2) < B2(p[1], p[2], z2)

\* a < b holds at z on the first curve.
Curve1Hit(water_depth, p, z) == A(water_depth + z) < B(p[1], p[2], z)

\* a > 9.355001 at z.
Above(water_depth, z) == A(water_depth + z) > Threshold

\* the first z of 1..ZMax with a > 9.355001, None when there is none.
SwitchZ(water_depth) ==
    IF \E z \in 1..ZMax : Above(water_depth, z)
    THEN CHOOSE z \in 1..ZMax :
            Above(water_depth, z) /\ \A y \in 1..(z - 1) : ~Above(water_depth, y)
    ELSE None

\* the candidates scanned on the first curve: those before the switch.
BeforeSwitch(water_depth) ==
    IF SwitchZ(water_depth) = None THEN 1..ZMax ELSE 1..(SwitchZ(water_depth) - 1)

\* the search reaches the switch: no candidate before it satisfies a < b.
Switched(water_depth, p) ==
    /\ SwitchZ(water_depth) # None
    /\ \A z \in BeforeSwitch(water_depth) : ~Curve1Hit(water_depth, p, z)

\* the least z2 of 1..Z2Max with a2 < b2, None when there is none.
LeastCurve2(water_depth, p) ==
    IF \E z2 \in 1..Z2Max : Curve2Hit(water_depth, p, z2)
    THEN CHOOSE z2 \in 1..Z2Max :
            Curve2Hit(water_depth, p, z2)
            /\ \A y \in 1..(z2 - 1) : ~Curve2Hit(water_depth, p, y)
    ELSE None

\* no candidate before the switch satisfies a < b, and the switch never
\* occurs or no z2 satisfies a2 < b2.
NotFound(water_depth, p) ==
    /\ \A z \in BeforeSwitch(water_depth) : ~Curve1Hit(water_depth, p, z)
    /\ \/ SwitchZ(water_depth) = None
       \/ \A z2 \in 1..Z2Max : ~Curve2Hit(water_depth, p, z2)

SwitchTable == [d \in Depths |-> SwitchZ(d)] @@ <<>>
SwitchedTable == [d \in Depths, p \in Params |-> Switched(d, p)] @@ <<>>
LeastCurve2Table == [d \in Depths, p \in Params |-> LeastCurve2(d, p)] @@ <<>>
NotFoundTable == [d \in Depths, p \in Params |-> NotFound(d, p)] @@ <<>>

\* a call has been made.
Called == ncalls > 0

\* the step is a joides call.
CallStep == ncalls' = ncalls + 1

-----------------------------------------------------------------------------
(* C1 *)

\* C1: memoization transparency.  Whatever calls came before (any depths,
\* any T and G), the next call solve(depth, T, G) returns the same result
\* with the cache as it stands as with the cache cleared just before it.
C1_MemoTransparent ==
    \A d \in CallDepths, p \in Params :
        joides(memoize_dict, d, p).ret = joides(EmptyMemo, d, p).ret

-----------------------------------------------------------------------------
(* C2 *)

\* every call made so far returned what the memo-free search returns for
\* its own (d, T, G).
ReturnsSearchResult == Called => ret = SearchTable[args[1], args[2]]

\* a call with the depth of the call before it returns the same value.
RepeatSame == (CallStep /\ Called /\ args'[1] = args[1]) => ret' = ret

\* C2: with T and G held fixed and the cache empty at the start, every call
\* solve(d) returns exactly what the memo-free search returns for
\* (d, T, G), and a repeated call with the same d returns the identical
\* result, not found included.
C2_DeterministicFixed == [](ReturnsSearchResult) /\ [][RepeatSame]_vars

\* a repeated call was served from the cache, under fixed parameters.
C2_Witness == ncalls >= 2 /\ path = "hit" /\ ret = SearchTable[args[1], env]

-----------------------------------------------------------------------------
(* C3 *)

\* C3: every solve call returns an integer of 1..2500 or not found, and it
\* returns not found exactly when no candidate before the branch switch
\* satisfies a < b and either the switch never occurs within 1..2500 or no
\* z2 of 1..2500 satisfies a2 < b2.
C3_NotFoundExactly ==
    Called =>
        /\ ret \in (1..ZMax) \cup {None}
        /\ (ret = None) <=> NotFoundTable[args[1], args[2]]

-----------------------------------------------------------------------------
(* C8 *)

\* the last call ran the search and reached the branch switch.
SearchSwitched == Called /\ path = "search" /\ SwitchedTable[args[1], args[2]]

\* at the switch the second scan starts at z2 = 1 and its first hit, the
\* least z2 of 1..2500 with a2 < b2, is what the call returns.
RescanFromOne == SearchSwitched => ret = LeastCurve2Table[args[1], args[2]]

\* the value the second scan returns is never below the z of the switch.
NotBelowSwitch ==
    (SearchSwitched /\ ret # None) => ret >= SwitchTable[args[1]]

\* at every candidate z and for every depth: where a is at or below the
\* threshold and the second curve accepts, the first curve accepts as well
\* (b2 <= b, or b is above the threshold).
CurveOrder ==
    \A p \in Params : \A z \in 1..ZMax :
        B2(p[1], p[2], z) <= B(p[1], p[2], z) \/ B(p[1], p[2], z) > Threshold

\* some input makes the second scan return a z2 below the z of the switch.
SomeBelowSwitch ==
    \E d \in Depths, p \in Params :
        /\ SwitchedTable[d, p]
        /\ LeastCurve2Table[d, p] # None
        /\ LeastCurve2Table[d, p] < SwitchTable[d]

\* C8 as stated: the second search starts again at z2 = 1 at the first z
\* with a > 9.355001, its result is the least z2 of 1..2500 with a2 < b2
\* (accepted with no test of a2 against 9.355001), and the returned z2 may
\* be smaller than the z at which the switch happened.
C8_RescanMayGoBelow == RescanFromOne /\ SomeBelowSwitch

\* C8 as amended: the second search starts again at z2 = 1, its result is
\* the least z2 of 1..2500 with a2 < b2, accepted with no test of a2
\* against 9.355001, and the returned z2 is never smaller than the z at
\* which the switch happened.
C8_RescanNeverBelow == RescanFromOne /\ NotBelowSwitch /\ CurveOrder

\* the search switched at z = 337 and the second scan returned a later z2.
C8_Witness ==
    /\ SearchSwitched
    /\ ret # None
    /\ SwitchTable[args[1]] > 1
    /\ ret > SwitchTable[args[1]]

-----------------------------------------------------------------------------
(* C10 *)

\* every entry of the cache maps a depth to an integer of 1..2500.
MemoEntriesInRange ==
    \A d \in DOMAIN memoize_dict : memoize_dict[d] \in 1..ZMax

\* what one call does to the cache.
CallLeavesMemo ==
    CallStep =>
        /\ ret' = None => (memoize_dict' = memoize_dict /\ path' = "search")
        /\ path' = "hit" => memoize_dict' = memoize_dict
        /\ (path' = "search" /\ ret' # None) =>
              /\ args'[1] \notin DOMAIN memoize_dict
              /\ DOMAIN memoize_dict' = DOMAIN memoize_dict \cup {args'[1]}
              /\ memoize_dict'[args'[1]] = ret'
              /\ \A d \in DOMAIN memoize_dict : memoize_dict'[d] = memoize_dict[d]

\* C10: every cache entry maps a depth to an integer of 1..2500; a call
\* that ends in not found writes nothing (and was not served from the
\* cache), a call served from the cache leaves it unchanged, and a call that
\* finds a result adds exactly one entry, under its own water depth, and
\* changes no other entry.
C10_MemoContents == [](MemoEntriesInRange) /\ [][CallLeavesMemo]_vars

\* a found result was added to a cache that already held another entry,
\* after a call that was not found.
C10_Witness ==
    /\ path = "search"
    /\ ret # None
    /\ Cardinality(DOMAIN memoize_dict) >= 2
    /\ ncalls = MaxCalls

-----------------------------------------------------------------------------
(* The script run: C4, C5, C6, C7 *)

\* the raster holds a negative depth.
HasNegative == \E c \in DOMAIN in_raster : ~in_raster[c].nodata /\ in_raster[c].v < 0

\* the depth a raster cell stands for: 99999 for no data, else its value
\* cut to whole metres toward zero.
CellDepth(cell) == IF cell.nodata THEN 99999 ELSE cell.v \div 10

\* C4: a raster with a negative depth is rejected before any computation:
\* joides is never invoked, memoize_dict stays as it was, and no output
\* array and no no-data value are produced; the run can only end in the
\* reported error.
C4_NegativeRejected ==
    HasNegative =>
        /\ pc \in {"start", "error"}
        /\ ncalls = 0
        /\ memoize_dict = EmptyMemo
        /\ in_array = <<>>
        /\ out_array = <<>>
        /\ no_data_value = None

\* a raster holding a negative and a positive depth ended in the error.
C4_Witness ==
    /\ pc = "error"
    /\ \E c \in DOMAIN in_raster : ~in_raster[c].nodata /\ in_raster[c].v < 0
    /\ \E c \in DOMAIN in_raster : ~in_raster[c].nodata /\ in_raster[c].v > 0

\* C5: a cell with a valid depth for which the search exhausts 1..2500 gets
\* an output value that differs from every real answer 1..2500 and from
\* no_data_value, also when solving the no-data depth is itself not found.
C5_UnsolvableDistinct ==
    pc = "done" =>
        \A c \in DOMAIN in_raster :
            (~in_raster[c].nodata /\ SearchTable[CellDepth(in_raster[c]), env] = None)
                => (out_array[c] \notin 1..ZMax /\ out_array[c] # no_data_value)

\* C6: at the end of a run every output cell whose input depth is the
\* no-data depth 99999 holds exactly the no_data_value that the separate
\* call of line 93 returned, from the cache or recomputed, in every order
\* of the cells and whatever the other cells hold.
C6_SentinelConsistent ==
    pc = "done" =>
        \A c \in DOMAIN in_array :
            in_array[c] = 99999 => out_array[c] = no_data_value

\* a run ended with a no-data cell beside a data cell, the call of line 93
\* served from the cache with a found value.
C6_Witness ==
    /\ pc = "done"
    /\ \E c \in DOMAIN in_array : in_array[c] = 99999
    /\ \E c \in DOMAIN in_array : in_array[c] # 99999
    /\ path = "hit"
    /\ no_data_value \in 1..ZMax

\* C7: the output array has the shape of the input raster and every cell
\* done holds the memo-free search result for its input cell cut to whole
\* metres toward zero, with the T and G of the run, in every order in which
\* the cells are visited.
C7_ElementWise ==
    /\ DOMAIN out_array \subseteq DOMAIN in_raster
    /\ pc = "done" => DOMAIN out_array = DOMAIN in_raster
    /\ \A c \in DOMAIN out_array :
          out_array[c] = SearchTable[CellDepth(in_raster[c]), env]

\* a run ended on a raster of two different data cells, one of them with a
\* fraction of a metre to cut, both solved.
C7_Witness ==
    /\ pc = "done"
    /\ \E c, e \in DOMAIN in_raster :
          /\ in_raster[c] = [nodata |-> FALSE, v |-> 3849]
          /\ in_raster[e] = [nodata |-> FALSE, v |-> 10000]
          /\ out_array[c] \in 1..ZMax
          /\ out_array[e] \in 1..ZMax
          /\ out_array[c] # out_array[e]

-----------------------------------------------------------------------------
(* Concurrent invocations: C9 *)

\* every invocation that has returned, returned the memo-free search result,
\* and every entry of the cache holds the memo-free search result of its key.
ConcResults ==
    /\ \A t \in Threads :
          tpc[t] = "done" => tret[t] = SearchTable[tdepth[t], env]
    /\ \A d \in DOMAIN memoize_dict : memoize_dict[d] = SearchTable[d, env]

\* a key that is written again is written with the value it already holds.
SameValueRewritten ==
    \A d \in DOMAIN memoize_dict :
        d \in DOMAIN memoize_dict' /\ memoize_dict'[d] = memoize_dict[d]

\* C9: with T and G fixed, concurrent invocations on the one cache with a
\* check-then-insert that is not atomic return, under every interleaving,
\* what a sequential memo-free evaluation returns, and any key is only ever
\* written with one and the same value.
C9_RaceTolerated == [](ConcResults) /\ [][SameValueRewritten]_vars

\* two invocations missed the same depth; one has already inserted and the
\* other is about to insert the same key again.
C9_Witness ==
    \E t, u \in Threads :
        /\ t # u
        /\ tdepth[t] = tdepth[u]
        /\ tpc[t] = "store"
        /\ tpc[u] \in {"return", "done"}
        /\ tz[u] # None
        /\ MemoKey(tdepth[t]) \in DOMAIN memoize_dict

=============================================================================
